---- MODULE Spec2Model ----
(***************************************************************************)
(* Model of the interactsh client service                                  *)
(* (packages/frontend/src/services/InteractshService.ts, useClientService) *)
(* and of the handler the view passes to it (views/useLogic.ts).           *)
(*                                                                         *)
(* JavaScript runs one job at a time: every action below is the code that  *)
(* runs between two suspension points (an await of a network call, of the  *)
(* crypto provider or of a timer).  A call that is suspended is a record   *)
(* in inits (initialize / performRegistration), cycles (pollingLoop and    *)
(* poll, both running getInteractions) or closes (close / stop).           *)
(*                                                                         *)
(* When getInteractions returns, the loop that awaits it sets its timer in *)
(* the same step: nothing but the promise jobs of that return runs in      *)
(* between.  The code after `await performRegistration` is a step of its   *)
(* own (initializeResume).                                                 *)
(***************************************************************************)
EXTENDS Integers, Sequences, FiniteSets

VARIABLES
  state,                    \* state.value: "Idle" | "Polling" | "Closed"
  quitPollingFlag,          \* quitPollingFlag.value
  pollingInterval,          \* pollingInterval.value, milliseconds
  correlationID,            \* correlationID.value (NoID when undefined)
  secretKey,                \* secretKey.value (NoID when undefined)
  serverURL,                \* serverURL.value (NoURL when undefined)
  token,                    \* token.value ("" when undefined)
  correlationIdNonceLength, \* let correlationIdNonceLength
  interactionCallback,      \* let interactionCallback ("undefined" or a handler)
  inits,                    \* suspended initialize / performRegistration calls
  cycles,                   \* polling loops and manual polls
  closes,                   \* suspended close / stop calls
  supply,                   \* the interactions the server gets for this session
  served,                   \* the batches the server has answered polls with
  received,                 \* sourceData of useLogic: what the handler appended
  saved,                    \* the session export the user holds (saveSession's result)
  ev                        \* the step just taken: operation and its error

vars == <<state, quitPollingFlag, pollingInterval, correlationID, secretKey,
          serverURL, token, correlationIdNonceLength, interactionCallback,
          inits, cycles, closes, supply, served, received, saved, ev>>

session == <<correlationID, secretKey, serverURL, token,
             correlationIdNonceLength, interactionCallback>>

----------------------------------------------------------------------------
(* Bounds of the model *)

\* suspended initialize / performRegistration calls at one time
MaxInits == 1
\* polling loops and manual polls alive at one time
MaxCycles == 2
\* suspended close / stop calls at one time
MaxCloses == 1
\* interactions the server gets while the whole lifecycle is explored
MaxItems == 1
\* interactions the server gets while the delivery to the handler is explored
MaxDelivered == 3
\* interactions in one poll response
MaxBatch == 2

----------------------------------------------------------------------------
(* Values *)

Idle == "Idle"
Polling == "Polling"
Closed == "Closed"
State == {Idle, Polling, Closed}

\* A random identifier is its length and the random draw that made it.
NoID == [len |-> 0, rnd |-> 0]
generateRandomID(n, r) == [len |-> n, rnd |-> r]

\* new URL(s): the parsed URL, with the href toString() gives and its host.
NoURL == [href |-> "", host |-> ""]
NewURL(s) ==
  CASE s = "https://oast.site"  -> [href |-> "https://oast.site/", host |-> "oast.site"]
    [] s = "https://oast.site/" -> [href |-> "https://oast.site/", host |-> "oast.site"]
    [] s = "https://oast.fun"   -> [href |-> "https://oast.fun/", host |-> "oast.fun"]
    [] s = "https://oast.fun/"  -> [href |-> "https://oast.fun/", host |-> "oast.fun"]
    [] OTHER                    -> NoURL

\* The handler useLogic passes to start(): it appends to sourceData.
Handler == "addToSourceData"
defaultInteractionHandler == "defaultInteractionHandler"
Undefined == "undefined"

\* a || b of JavaScript, for numbers, strings and callbacks
OrNum(a, b) == IF a # 0 THEN a ELSE b
OrStr(a, b) == IF a # "" THEN a ELSE b
OrCb(a, b) == IF a # Undefined THEN a ELSE b
OrID(a, b) == IF a.len # 0 THEN a ELSE b

\* What an HTTP exchange ends with: 0 is a transport failure (the request
\* promise rejects), anything else is the status of the response.
TransportFailure == 0
Outcomes == {TransportFailure, 200, 401, 500}

\* SessionInfo, as saveSession writes it and initialize reads it (privateKey
\* is always ""), and the value that stands for no session
NoSession == [serverURL |-> "", token |-> "", correlationID |-> NoID,
              secretKey |-> NoID]

\* the string generateUrl returns, in its parts; "" is NoHostname
NoHostname == [scheme |-> "", correlationID |-> NoID, nonce |-> NoID, host |-> ""]

\* a suspended call: where it is, and the options it was called with
NoInit == [pc |-> "none", caller |-> "none", keepAliveInterval |-> 0,
           sessionInfo |-> NoSession, registered |-> FALSE]
NoCycle == [kind |-> "none", pc |-> "none", cb |-> Undefined, items |-> <<>>,
            ms |-> 0, stopped |-> FALSE]
NoClose == [pc |-> "none", caller |-> "none"]

\* ev: a call of op returned or threw err; Settled: the exchange awaited by op
\* ended with outcome, and op went on to log or throw err
Event(op, err) ==
  [op |-> op, err |-> err, status |-> -1, arg |-> 0, url |-> NoHostname]
Settled(op, err, outcome) ==
  [op |-> op, err |-> err, status |-> outcome, arg |-> 0, url |-> NoHostname]
\* a call of op with the number arg returned or threw err
Called(op, arg, err) == [Event(op, err) EXCEPT !.arg = arg]

\* The lowest free slot of a table of suspended calls (0 when it is full).
FreeSlot(table) ==
  IF \E i \in DOMAIN table : table[i].pc = "none"
  THEN CHOOSE i \in DOMAIN table :
         /\ table[i].pc = "none"
         /\ \A j \in DOMAIN table : table[j].pc = "none" => i <= j
  ELSE 0

\* the service as useClientService() returns it
Constructed ==
  /\ state = Idle
  /\ quitPollingFlag = FALSE
  /\ pollingInterval = 5000
  /\ correlationID = NoID
  /\ secretKey = NoID
  /\ serverURL = NoURL
  /\ token = ""
  /\ correlationIdNonceLength = 13
  /\ interactionCallback = Undefined
  /\ inits = [i \in 1..MaxInits |-> NoInit]
  /\ cycles = [i \in 1..MaxCycles |-> NoCycle]
  /\ closes = [i \in 1..MaxCloses |-> NoClose]
  /\ served = <<>>
  /\ received = <<>>
  /\ ev = Event("useClientService", "none")

Init ==
  /\ Constructed
  /\ supply = MaxItems
  /\ saved = NoSession

----------------------------------------------------------------------------
(* The server's side of a poll: the interactions it hands out.  An item is  *)
(* its serial number and whether it decrypts and decodes; the server hands  *)
(* every interaction out once, in serial order.                             *)

Min(a, b) == IF a <= b THEN a ELSE b

LastId ==
  IF served = <<>> THEN 0
  ELSE LET b == served[Len(served)].items IN b[Len(b)].id

\* the responses the server can give to a poll once n items were handed out
Batches(n) ==
  UNION { { [j \in 1..k |-> [id |-> n + j, ok |-> f[j]]] : f \in [1..k -> BOOLEAN] }
          : k \in 0..Min(MaxBatch, supply - n) }

----------------------------------------------------------------------------
(* getInteractions: one Poll Cycle, run by cycle record c *)

\* The cycle is over (its try block finished or its catch logged err): the
\* polling loop starts its timer with the interval of that moment, a manual
\* poll returns.
\* a loop that gives up on the first cycle that fails
EndCycle_ErrorEndsLoop(c, err, interval) ==
  IF c.kind = "loop" /\ err = "none"
  THEN [c EXCEPT !.pc = "sleep", !.items = <<>>, !.ms = interval]
  ELSE NoCycle

EndCycle(c, err, interval) ==
  IF c.kind = "loop"
  THEN [c EXCEPT !.pc = "sleep", !.items = <<>>, !.ms = interval]
  ELSE NoCycle

\* The code of getInteractions up to its first await: the URL is built (which
\* throws, into the catch, when there is no server URL) and the GET is sent.
BeginCycle(c, url, interval) ==
  IF url = NoURL
  THEN EndCycle(c, "InvalidURL", interval)
  ELSE [c EXCEPT !.pc = "request", !.items = <<>>, !.ms = 0]

\* a poll that throws the same error for every status that is not 200
PollError_OneErrorForAll(outcome) ==
  CASE outcome = TransportFailure -> "TransportError"
    [] outcome = 200 -> "none"
    [] OTHER -> "PollingError"

\* what the catch of getInteractions logs for a response
PollError(outcome) ==
  CASE outcome = TransportFailure -> "TransportError"
    [] outcome = 200 -> "none"
    [] outcome = 401 -> "AuthenticationError"
    [] OTHER -> "PollingError"

\* the GET of cycle i is answered
getInteractionsResponse(i, outcome, batch) ==
  /\ cycles[i].pc = "request"
  /\ batch \in Batches(LastId)
  /\ outcome # 200 => batch = <<>>
  /\ IF outcome = 200 /\ batch # <<>>
     THEN /\ cycles' = [cycles EXCEPT ![i].pc = "decrypt", ![i].items = batch]
          /\ served' = Append(served, [by |-> i, cb |-> cycles[i].cb, items |-> batch])
     ELSE /\ cycles' = [cycles EXCEPT
                          ![i] = EndCycle(@, PollError(outcome), pollingInterval)]
          /\ UNCHANGED served
  /\ ev' = Settled("getInteractions", PollError(outcome), outcome)
  /\ UNCHANGED <<state, quitPollingFlag, pollingInterval, session, inits, closes,
                 saved, supply, received>>

\* a handler that puts the newest interaction first
Deliver_Prepends(cb, item) ==
  IF cb = Handler THEN <<item.id>> \o received ELSE received

\* callback(interaction): the handler of useLogic appends, the default one
\* does nothing
Deliver(cb, item) ==
  IF cb = Handler THEN Append(received, item.id) ELSE received

\* a cycle that skips an item it cannot decode and goes on with the next
getInteractionsItem_SkipsUndecodable(i) ==
  /\ cycles[i].pc = "decrypt"
  /\ LET item == Head(cycles[i].items)
         rest == Tail(cycles[i].items)
     IN /\ received' = IF item.ok THEN Deliver(cycles[i].cb, item) ELSE received
        /\ cycles' = [cycles EXCEPT
             ![i] = IF rest = <<>> THEN EndCycle(@, "none", pollingInterval)
                    ELSE [@ EXCEPT !.items = rest]]
        /\ ev' = IF item.ok THEN Event("callback", "none")
                 ELSE Event("getInteractions", "DecodeError")
  /\ UNCHANGED <<state, quitPollingFlag, pollingInterval, session, inits, closes,
                 saved, supply, served>>

\* decryptMessage of the next item of cycle i has settled: the item is decoded
\* and handed to the callback, or the failure ends the cycle
getInteractionsItem(i) ==
  /\ cycles[i].pc = "decrypt"
  /\ LET item == Head(cycles[i].items)
         rest == Tail(cycles[i].items)
     IN IF item.ok
        THEN /\ received' = Deliver(cycles[i].cb, item)
             /\ cycles' = [cycles EXCEPT
                  ![i] = IF rest = <<>> THEN EndCycle(@, "none", pollingInterval)
                         ELSE [@ EXCEPT !.items = rest]]
             /\ ev' = Event("callback", "none")
        ELSE /\ UNCHANGED received
             /\ cycles' = [cycles EXCEPT
                  ![i] = EndCycle(@, "DecodeError", pollingInterval)]
             /\ ev' = Event("getInteractions", "DecodeError")
  /\ UNCHANGED <<state, quitPollingFlag, pollingInterval, session, inits, closes,
                 saved, supply, served>>

----------------------------------------------------------------------------
(* startPolling, pollingLoop, poll, stopPolling, setRefreshTimeSecond *)

\* startPolling(callback), called when the interval is `interval`: what it
\* does to state, quitPollingFlag and cycles.  The first pass of pollingLoop
\* runs inside the call, up to the await in getInteractions.
\* startPolling without its guard
startPolling_Unguarded(callback, interval) ==
  /\ FreeSlot(cycles) # 0
  /\ quitPollingFlag' = FALSE
  /\ state' = Polling
  /\ cycles' = [cycles EXCEPT ![FreeSlot(cycles)] =
       BeginCycle([NoCycle EXCEPT !.kind = "loop", !.cb = callback],
                  serverURL, interval)]

startPolling(callback, interval) ==
  IF state = Polling
  THEN UNCHANGED <<state, quitPollingFlag, cycles>>
  ELSE /\ FreeSlot(cycles) # 0
       /\ quitPollingFlag' = FALSE
       /\ state' = Polling
       /\ cycles' = [cycles EXCEPT ![FreeSlot(cycles)] =
            BeginCycle([NoCycle EXCEPT !.kind = "loop", !.cb = callback],
                       serverURL, interval)]

startPollingError == IF state = Polling THEN "StateError" ELSE "none"

CallStartPolling(callback) ==
  /\ startPolling(callback, pollingInterval)
  /\ ev' = Event("startPolling", startPollingError)
  /\ UNCHANGED <<pollingInterval, session, inits, closes, saved, supply, served, received>>

\* the timer of loop i fires: the while condition is read again
pollingLoop(i) ==
  /\ cycles[i].kind = "loop"
  /\ cycles[i].pc = "sleep"
  /\ cycles' = [cycles EXCEPT ![i] =
       IF quitPollingFlag THEN NoCycle
       ELSE BeginCycle(@, serverURL, pollingInterval)]
  /\ ev' = Event("pollingLoop", "none")
  /\ UNCHANGED <<state, quitPollingFlag, pollingInterval, session, inits, closes,
                 saved, supply, served, received>>

poll ==
  /\ IF state # Polling
     THEN /\ UNCHANGED cycles
          /\ ev' = Event("poll", "NotPolling")
     ELSE /\ FreeSlot(cycles) # 0
          /\ cycles' = [cycles EXCEPT ![FreeSlot(cycles)] =
               BeginCycle([NoCycle EXCEPT
                             !.kind = "poll",
                             !.cb = OrCb(interactionCallback, defaultInteractionHandler)],
                          serverURL, pollingInterval)]
          /\ ev' = Event("poll", "none")
  /\ UNCHANGED <<state, quitPollingFlag, pollingInterval, session, inits, closes,
                 saved, supply, served, received>>

\* stopPolling: what it does to state, quitPollingFlag and cycles (every
\* loop alive at the call is marked as stopped by it)
\* stopPolling without its guard
stopPolling_Unguarded ==
  /\ quitPollingFlag' = TRUE
  /\ state' = Idle
  /\ cycles' = [i \in DOMAIN cycles |->
       IF cycles[i].kind = "loop" THEN [cycles[i] EXCEPT !.stopped = TRUE]
       ELSE cycles[i]]

stopPolling ==
  IF state # Polling
  THEN UNCHANGED <<state, quitPollingFlag, cycles>>
  ELSE /\ quitPollingFlag' = TRUE
       /\ state' = Idle
       /\ cycles' = [i \in DOMAIN cycles |->
            IF cycles[i].kind = "loop" THEN [cycles[i] EXCEPT !.stopped = TRUE]
            ELSE cycles[i]]

stopPollingError == IF state # Polling THEN "StateError" ELSE "none"

CallStopPolling ==
  /\ stopPolling
  /\ ev' = Event("stopPolling", stopPollingError)
  /\ UNCHANGED <<pollingInterval, session, inits, closes, saved, supply, served, received>>

\* setRefreshTimeSecond(seconds) that takes the bounds as exclusive
setRefreshTimeSecond_ExclusiveBounds(seconds) ==
  /\ IF seconds <= 5 \/ seconds >= 3600
     THEN /\ UNCHANGED pollingInterval
          /\ ev' = Called("setRefreshTimeSecond", seconds, "ConfigurationError")
     ELSE /\ pollingInterval' = seconds * 1000
          /\ ev' = Called("setRefreshTimeSecond", seconds, "none")
  /\ UNCHANGED <<state, quitPollingFlag, session, inits, cycles, closes, saved, supply, served,
                 received>>

setRefreshTimeSecond(seconds) ==
  /\ IF seconds < 5 \/ seconds > 3600
     THEN /\ UNCHANGED pollingInterval
          /\ ev' = Called("setRefreshTimeSecond", seconds, "ConfigurationError")
     ELSE /\ pollingInterval' = seconds * 1000
          /\ ev' = Called("setRefreshTimeSecond", seconds, "none")
  /\ UNCHANGED <<state, quitPollingFlag, session, inits, cycles, closes, saved, supply, served,
                 received>>

----------------------------------------------------------------------------
(* close, stop *)

\* close() entered when state.value is st, on behalf of caller: the guards,
\* then the URL is built (which throws when there is no server URL) and the
\* POST to /deregister is sent and awaited
\* close that only refuses to close while polling
close_ClosedNotChecked(st, caller) ==
  IF st = Polling \/ serverURL = NoURL
  THEN UNCHANGED closes
  ELSE /\ FreeSlot(closes) # 0
       /\ closes' = [closes EXCEPT ![FreeSlot(closes)] =
            [pc |-> "deregister", caller |-> caller]]

close(st, caller) ==
  IF st = Polling \/ st = Closed \/ serverURL = NoURL
  THEN UNCHANGED closes
  ELSE /\ FreeSlot(closes) # 0
       /\ closes' = [closes EXCEPT ![FreeSlot(closes)] =
            [pc |-> "deregister", caller |-> caller]]

closeError(st) ==
  IF st = Polling \/ st = Closed THEN "StateError"
  ELSE IF serverURL = NoURL THEN "InvalidURL" ELSE "none"

CallClose ==
  /\ close(state, "close")
  /\ ev' = Event("close", closeError(state))
  /\ UNCHANGED <<state, quitPollingFlag, pollingInterval, session, inits, cycles,
                 saved, supply, served, received>>

\* close that is Closed whatever the server answered
closeResponse_StatusIgnored(i, outcome) ==
  /\ closes[i].pc = "deregister"
  /\ closes' = [closes EXCEPT ![i] = NoClose]
  /\ state' = Closed
  /\ ev' = Settled("close", "none", outcome)
  /\ UNCHANGED <<quitPollingFlag, pollingInterval, session, inits, cycles, saved, supply,
                 served, received>>

\* the POST of close i is answered
closeResponse(i, outcome) ==
  /\ closes[i].pc = "deregister"
  /\ closes' = [closes EXCEPT ![i] = NoClose]
  /\ IF outcome = 200
     THEN /\ state' = Closed
          /\ ev' = Settled("close", "none", outcome)
     ELSE /\ UNCHANGED state
          /\ ev' = Settled("close",
                           IF outcome = TransportFailure THEN "TransportError"
                           ELSE "DeregistrationError", outcome)
  /\ UNCHANGED <<quitPollingFlag, pollingInterval, session, inits, cycles, saved, supply, served,
                 received>>

\* stop(): stopPolling() when polling, then close()
stop ==
  /\ stopPolling
  /\ close(state', "stop")
  /\ ev' = Event("stop", closeError(state'))
  /\ UNCHANGED <<pollingInterval, session, inits, saved, supply, served, received>>

----------------------------------------------------------------------------
(* initialize / start, performRegistration *)

\* The options of the calls made in the lifecycle specification: the defaults,
\* with and without keepAliveInterval.
DefaultOptions == [serverURL |-> "", token |-> "", correlationIdLength |-> 0,
                   correlationIdNonceLength |-> 0, hasSessionInfo |-> FALSE,
                   sessionInfo |-> NoSession, keepAliveInterval |-> 0]
LifecycleOptions ==
  { [DefaultOptions EXCEPT !.keepAliveInterval = k] : k \in {0, 5000} }
\* the draws of the random generators (generateRandomID twice, uuidv4 once)
Draws == {1}
UUIDs == {"uuid"}

\* initialize that lets the token and serverURL options win over sessionInfo
initialize_OptionsBeforeSession(options, interactionCallbackParam, r1, r2, uuid) ==
  LET tok == OrStr(options.token, uuid)
      cid == OrID(options.sessionInfo.correlationID,
                  generateRandomID(OrNum(options.correlationIdLength, 20), r1))
      sk  == OrID(options.sessionInfo.secretKey,
                  generateRandomID(OrNum(options.correlationIdNonceLength, 13), r2))
      url == NewURL(OrStr(options.serverURL, "https://oast.site"))
      cb  == OrCb(interactionCallbackParam, interactionCallback)
      surl == NewURL(OrStr(options.serverURL, options.sessionInfo.serverURL))
  IN
  /\ FreeSlot(inits) # 0
  /\ correlationID' = cid
  /\ secretKey' = sk
  /\ IF url = NoURL
     THEN \* new URL() throws: the call is rejected half way
          /\ token' = tok
          /\ UNCHANGED <<serverURL, correlationIdNonceLength, interactionCallback,
                         inits>>
          /\ ev' = Event("initialize", "TypeError")
     ELSE /\ correlationIdNonceLength' = OrNum(options.correlationIdNonceLength, 13)
          /\ interactionCallback' = cb
          /\ IF ~options.hasSessionInfo
             THEN /\ token' = tok
                  /\ serverURL' = url
                  /\ inits' = [inits EXCEPT ![FreeSlot(inits)] =
                       [pc |-> "encodePublicKey", caller |-> "initialize",
                        keepAliveInterval |-> options.keepAliveInterval,
                        sessionInfo |-> options.sessionInfo,
                        registered |-> FALSE]]
                  /\ ev' = Event("initialize", "none")
             ELSE /\ token' = OrStr(options.token, options.sessionInfo.token)
                  /\ IF surl = NoURL
                     THEN /\ serverURL' = url
                          /\ UNCHANGED inits
                          /\ ev' = Event("initialize", "TypeError")
                     ELSE /\ serverURL' = surl
                          /\ inits' = [inits EXCEPT ![FreeSlot(inits)] =
                               [pc |-> "encodePublicKey", caller |-> "initialize",
                                keepAliveInterval |-> options.keepAliveInterval,
                                sessionInfo |-> options.sessionInfo,
                                registered |-> FALSE]]
                          /\ ev' = Event("initialize", "none")
  /\ UNCHANGED <<state, quitPollingFlag, pollingInterval, cycles, closes, saved, supply, served,
                 received>>

\* initialize(options, interactionCallbackParam) up to its first await, with
\* the values r1, r2 and uuid its random generators give
initialize(options, interactionCallbackParam, r1, r2, uuid) ==
  LET tok == OrStr(options.token, uuid)
      cid == OrID(options.sessionInfo.correlationID,
                  generateRandomID(OrNum(options.correlationIdLength, 20), r1))
      sk  == OrID(options.sessionInfo.secretKey,
                  generateRandomID(OrNum(options.correlationIdNonceLength, 13), r2))
      url == NewURL(OrStr(options.serverURL, "https://oast.site"))
      cb  == OrCb(interactionCallbackParam, interactionCallback)
      surl == NewURL(options.sessionInfo.serverURL)
  IN
  /\ FreeSlot(inits) # 0
  /\ correlationID' = cid
  /\ secretKey' = sk
  /\ IF url = NoURL
     THEN \* new URL() throws: the call is rejected half way
          /\ token' = tok
          /\ UNCHANGED <<serverURL, correlationIdNonceLength, interactionCallback,
                         inits>>
          /\ ev' = Event("initialize", "TypeError")
     ELSE /\ correlationIdNonceLength' = OrNum(options.correlationIdNonceLength, 13)
          /\ interactionCallback' = cb
          /\ IF ~options.hasSessionInfo
             THEN /\ token' = tok
                  /\ serverURL' = url
                  /\ inits' = [inits EXCEPT ![FreeSlot(inits)] =
                       [pc |-> "encodePublicKey", caller |-> "initialize",
                        keepAliveInterval |-> options.keepAliveInterval,
                        sessionInfo |-> options.sessionInfo,
                        registered |-> FALSE]]
                  /\ ev' = Event("initialize", "none")
             ELSE /\ token' = options.sessionInfo.token
                  /\ IF surl = NoURL
                     THEN /\ serverURL' = url
                          /\ UNCHANGED inits
                          /\ ev' = Event("initialize", "TypeError")
                     ELSE /\ serverURL' = surl
                          /\ inits' = [inits EXCEPT ![FreeSlot(inits)] =
                               [pc |-> "encodePublicKey", caller |-> "initialize",
                                keepAliveInterval |-> options.keepAliveInterval,
                                sessionInfo |-> options.sessionInfo,
                                registered |-> FALSE]]
                          /\ ev' = Event("initialize", "none")
  /\ UNCHANGED <<state, quitPollingFlag, pollingInterval, cycles, closes, saved, supply, served,
                 received>>

\* performRegistration(payload) up to its await: the POST to /register is sent
\* (the call throws when there is no server URL)
performRegistration(i, caller) ==
  IF serverURL = NoURL
  THEN /\ inits' = [inits EXCEPT ![i] = NoInit]
       /\ ev' = Event(caller, "ServerURLNotDefined")
  ELSE /\ inits' = [inits EXCEPT ![i].pc = "register", ![i].caller = caller]
       /\ ev' = Event("performRegistration", "none")

\* encodePublicKey() has settled: initialize builds the payload and calls
\* performRegistration
initializeEncoded(i) ==
  /\ inits[i].pc = "encodePublicKey"
  /\ performRegistration(i, "initialize")
  /\ UNCHANGED <<state, quitPollingFlag, pollingInterval, session, cycles, closes,
                 saved, supply, served, received>>

\* performRegistration called by the user of the service
CallPerformRegistration ==
  /\ FreeSlot(inits) # 0
  /\ performRegistration(FreeSlot(inits), "performRegistration")
  /\ UNCHANGED <<state, quitPollingFlag, pollingInterval, session, cycles, closes,
                 saved, supply, served, received>>

\* the POST of registration i is answered: 200 makes the state Idle, anything
\* else is thrown into the catch and logged
performRegistrationResponse(i, outcome) ==
  /\ inits[i].pc = "register"
  /\ state' = IF outcome = 200 THEN Idle ELSE state
  /\ inits' = [inits EXCEPT ![i] =
       IF @.caller = "initialize"
       THEN [@ EXCEPT !.pc = "registered", !.registered = (outcome = 200)]
       ELSE NoInit]
  /\ ev' = Settled("performRegistration",
                   IF outcome = 200 THEN "none" ELSE "RegistrationError", outcome)
  /\ UNCHANGED <<quitPollingFlag, pollingInterval, session, cycles, closes, saved, supply, served,
                 received>>

\* initialize after `await performRegistration(payload)`: polling is started
\* when keepAliveInterval was given
initializeResume(i) ==
  /\ inits[i].pc = "registered"
  /\ inits' = [inits EXCEPT ![i] = NoInit]
  /\ IF inits[i].keepAliveInterval # 0
     THEN /\ pollingInterval' = inits[i].keepAliveInterval
          /\ startPolling(OrCb(interactionCallback, defaultInteractionHandler),
                          inits[i].keepAliveInterval)
          /\ ev' = Event("initialize", startPollingError)
     ELSE /\ UNCHANGED <<pollingInterval, state, quitPollingFlag, cycles>>
          /\ ev' = Event("initialize", "none")
  /\ UNCHANGED <<session, closes, saved, supply, served, received>>

----------------------------------------------------------------------------
(* saveSession, generateUrl: they read the session and change nothing *)

\* saveSession(): throws when the session is incomplete, and returns the
\* session as JSON otherwise
saveSession ==
  /\ IF serverURL = NoURL \/ correlationID = NoID \/ secretKey = NoID
     THEN /\ UNCHANGED saved
          /\ ev' = Event("saveSession", "SessionIncomplete")
     ELSE /\ saved' = [serverURL |-> serverURL.href, token |-> OrStr(token, ""),
                       correlationID |-> correlationID, secretKey |-> secretKey]
          /\ ev' = Event("saveSession", "none")
  /\ UNCHANGED <<state, quitPollingFlag, pollingInterval, session, inits, cycles,
                 closes, supply, served, received>>

\* generateUrl that always makes a nonce of the default length
generateUrl_DefaultNonceLength(r) ==
  /\ ev' = [Event("generateUrl", "none") EXCEPT
              !.url = IF state = Closed \/ correlationID = NoID \/ serverURL = NoURL
                      THEN NoHostname
                      ELSE [scheme |-> "https://",
                            correlationID |-> correlationID,
                            nonce |-> generateRandomID(13, r),
                            host |-> serverURL.host]]
  /\ UNCHANGED <<state, quitPollingFlag, pollingInterval, session, inits, cycles,
                 closes, saved, supply, served, received>>

\* generateUrl(), with the value r its random generator gives
generateUrl(r) ==
  /\ ev' = [Event("generateUrl", "none") EXCEPT
              !.url = IF state = Closed \/ correlationID = NoID \/ serverURL = NoURL
                      THEN NoHostname
                      ELSE [scheme |-> "https://",
                            correlationID |-> correlationID,
                            nonce |-> generateRandomID(correlationIdNonceLength, r),
                            host |-> serverURL.host]]
  /\ UNCHANGED <<state, quitPollingFlag, pollingInterval, session, inits, cycles,
                 closes, saved, supply, served, received>>

----------------------------------------------------------------------------
(* The service with its user, its server and its timers *)

\* the seconds the user passes to setRefreshTimeSecond
RefreshSeconds == {4, 5}

Next ==
  \/ \E o \in LifecycleOptions, cb \in {Handler}, r1 \in Draws, r2 \in Draws,
        u \in UUIDs : initialize(o, cb, r1, r2, u)
  \/ \E i \in 1..MaxInits : initializeEncoded(i)
  \/ CallPerformRegistration
  \/ \E i \in 1..MaxInits, outcome \in Outcomes : performRegistrationResponse(i, outcome)
  \/ \E i \in 1..MaxInits : initializeResume(i)
  \/ \E cb \in {Handler} : CallStartPolling(cb)
  \/ \E i \in 1..MaxCycles : pollingLoop(i)
  \/ \E i \in 1..MaxCycles, outcome \in Outcomes, batch \in Batches(LastId) :
        getInteractionsResponse(i, outcome, batch)
  \/ \E i \in 1..MaxCycles : getInteractionsItem(i)
  \/ poll
  \/ CallStopPolling
  \/ \E seconds \in RefreshSeconds : setRefreshTimeSecond(seconds)
  \/ CallClose
  \/ \E i \in 1..MaxCloses, outcome \in Outcomes : closeResponse(i, outcome)
  \/ stop
  \/ saveSession
  \/ \E r \in Draws : generateUrl(r)

Spec == Init /\ [][Next]_vars

----------------------------------------------------------------------------
(* The delivery of interactions to the handler of useLogic: the view starts  *)
(* the service as onGenerateClick does (keepAliveInterval 30000, the handler *)
(* that appends to sourceData), polls by hand (onManualPoll), and polling is *)
(* stopped and started again.                                                *)

ViewOptions == [DefaultOptions EXCEPT !.serverURL = "https://oast.site",
                                      !.token = "uuid",
                                      !.keepAliveInterval = 30000]

InitDelivery ==
  /\ Constructed
  /\ supply = MaxDelivered
  /\ saved = NoSession

NextDelivery ==
  \/ \E r1 \in Draws, r2 \in Draws, u \in UUIDs :
        initialize(ViewOptions, Handler, r1, r2, u)
  \/ \E i \in 1..MaxInits : initializeEncoded(i)
  \/ \E i \in 1..MaxInits, outcome \in Outcomes : performRegistrationResponse(i, outcome)
  \/ \E i \in 1..MaxInits : initializeResume(i)
  \/ \E i \in 1..MaxCycles : pollingLoop(i)
  \/ \E i \in 1..MaxCycles, outcome \in Outcomes, batch \in Batches(LastId) :
        getInteractionsResponse(i, outcome, batch)
  \/ \E i \in 1..MaxCycles : getInteractionsItem(i)
  \/ poll
  \/ CallStopPolling
  \/ CallStartPolling(Handler)

DeliverySpec == InitDelivery /\ [][NextDelivery]_vars

----------------------------------------------------------------------------
(* Scheduling: a timer that was set fires, an HTTP request is answered or    *)
(* fails (the client is created with a timeout), a decryption settles.       *)

Fairness ==
  \A i \in 1..MaxCycles :
    /\ WF_vars(pollingLoop(i))
    /\ WF_vars(\E outcome \in Outcomes, batch \in Batches(LastId) :
                  getInteractionsResponse(i, outcome, batch))
    /\ WF_vars(getInteractionsItem(i))

\* the polling of the view, under that scheduling
LiveSpec == Init /\ [][NextDelivery]_vars /\ Fairness

----------------------------------------------------------------------------
(* Manual polls next to a polling loop: the service is initialized with or   *)
(* without an interaction callback, and polling is started by initialize     *)
(* (keepAliveInterval) or by startPolling(callback).                         *)

NextPoll ==
  \/ \E o \in LifecycleOptions, cb \in {Undefined, Handler}, r1 \in Draws,
        r2 \in Draws, u \in UUIDs : initialize(o, cb, r1, r2, u)
  \/ \E i \in 1..MaxInits : initializeEncoded(i)
  \/ \E i \in 1..MaxInits, outcome \in Outcomes : performRegistrationResponse(i, outcome)
  \/ \E i \in 1..MaxInits : initializeResume(i)
  \/ CallStartPolling(Handler)
  \/ \E i \in 1..MaxCycles : pollingLoop(i)
  \/ \E i \in 1..MaxCycles, outcome \in Outcomes, batch \in Batches(LastId) :
        getInteractionsResponse(i, outcome, batch)
  \/ \E i \in 1..MaxCycles : getInteractionsItem(i)
  \/ poll
  \/ CallStopPolling

PollSpec == Init /\ [][NextPoll]_vars

----------------------------------------------------------------------------
(* The polling interval: keepAliveInterval is any number the caller passes   *)
(* (the view passes 30000), and so is the argument of setRefreshTimeSecond.  *)

IntervalOptions ==
  { [DefaultOptions EXCEPT !.keepAliveInterval = k] : k \in {-1, 0, 30000} }
IntervalSeconds == {-1, 4, 5, 3600, 3601}

NextInterval ==
  \/ \E o \in IntervalOptions, r1 \in Draws, r2 \in Draws, u \in UUIDs :
        initialize(o, Handler, r1, r2, u)
  \/ \E i \in 1..MaxInits : initializeEncoded(i)
  \/ \E i \in 1..MaxInits, outcome \in Outcomes : performRegistrationResponse(i, outcome)
  \/ \E i \in 1..MaxInits : initializeResume(i)
  \/ \E i \in 1..MaxCycles : pollingLoop(i)
  \/ \E i \in 1..MaxCycles, outcome \in Outcomes, batch \in Batches(LastId) :
        getInteractionsResponse(i, outcome, batch)
  \/ \E i \in 1..MaxCycles : getInteractionsItem(i)
  \/ CallStopPolling
  \/ \E seconds \in IntervalSeconds : setRefreshTimeSecond(seconds)

IntervalSpec == Init /\ [][NextInterval]_vars

----------------------------------------------------------------------------
(* Sessions: the service is initialized again and again, with fresh values   *)
(* or from the export of saveSession, on the same client or on a new one     *)
(* (useClientService() called again: the model follows the new instance).    *)

\* a new client instance; the user keeps the export and the view its data
useClientService ==
  /\ state' = Idle
  /\ quitPollingFlag' = FALSE
  /\ pollingInterval' = 5000
  /\ correlationID' = NoID
  /\ secretKey' = NoID
  /\ serverURL' = NoURL
  /\ token' = ""
  /\ correlationIdNonceLength' = 13
  /\ interactionCallback' = Undefined
  /\ inits' = [i \in 1..MaxInits |-> NoInit]
  /\ cycles' = [i \in 1..MaxCycles |-> NoCycle]
  /\ closes' = [i \in 1..MaxCloses |-> NoClose]
  /\ ev' = Event("useClientService", "none")
  /\ UNCHANGED <<saved, supply, served, received>>

\* options without sessionInfo, and the options that resume session s
SessionOptions ==
  { [DefaultOptions EXCEPT !.serverURL = u, !.token = t,
                           !.correlationIdNonceLength = n]
      : u \in {"", "https://oast.fun"}, t \in {"", "token"}, n \in {0, 4} }
RestoreOptions(s) ==
  { [o EXCEPT !.hasSessionInfo = TRUE, !.sessionInfo = s] : o \in SessionOptions }
\* the draws of the random generators, when they matter
SessionDraws == {1, 2}

NextSession ==
  \/ \E o \in SessionOptions, r1 \in SessionDraws, r2 \in SessionDraws, u \in UUIDs :
        initialize(o, Handler, r1, r2, u)
  \/ /\ saved # NoSession
     /\ \E o \in RestoreOptions(saved), r1 \in SessionDraws, r2 \in SessionDraws,
           u \in UUIDs : initialize(o, Handler, r1, r2, u)
  \/ \E i \in 1..MaxInits : initializeEncoded(i)
  \/ \E i \in 1..MaxInits, outcome \in Outcomes : performRegistrationResponse(i, outcome)
  \/ \E i \in 1..MaxInits : initializeResume(i)
  \/ useClientService
  \/ saveSession
  \/ \E r \in SessionDraws : generateUrl(r)
  \/ CallClose
  \/ \E i \in 1..MaxCloses, outcome \in Outcomes : closeResponse(i, outcome)

SessionSpec == Init /\ [][NextSession]_vars

----------------------------------------------------------------------------
(* Properties *)

Slots == 1..MaxCycles
Loops == {i \in Slots : cycles[i].kind = "loop"}
InCycle == {i \in Slots : cycles[i].pc \in {"request", "decrypt"}}
Deregistering == {i \in 1..MaxCloses : closes[i].pc = "deregister"}

\* the step is initialize going on after its registration, with keepAliveInterval
ResumesWithKeepAlive(i) ==
  /\ inits[i].pc = "registered"
  /\ inits'[i].pc = "none"
  /\ inits[i].keepAliveInterval # 0

\* C1: Closed is terminal: no step leaves state Closed, and a step that makes
\* state Closed is the successful end of a close (which only state Idle lets in).
ClosedIsTerminal ==
  [][ /\ state = Closed => state' = Closed
      /\ state # Closed /\ state' = Closed => ev' = Settled("close", "none", 200)
    ]_vars

\* C2: a loop that a stopPolling has stopped sends no poll request any more.
StoppedLoopPollsNoMore ==
  [][ \A i \in Slots :
        cycles[i].kind = "loop" /\ cycles[i].stopped /\ cycles[i].pc # "request"
          => cycles'[i].pc # "request"
    ]_vars

\* C3: at most one polling loop is alive, and at most one Poll Cycle of the
\* scheduler is in flight.
OnePollingLoop ==
  /\ Cardinality(Loops) <= 1
  /\ Cardinality(Loops \cap InCycle) <= 1

\* C4: startPolling called while state is Polling throws a state error and
\* leaves state, the cancellation flag, the interval and the loops as they are
\* (called by initialize, it leaves the interval initialize has just set).
StartPollingWhilePolling ==
  [][ /\ ev'.op = "startPolling" /\ state = Polling
         => /\ ev'.err = "StateError"
            /\ UNCHANGED <<state, quitPollingFlag, pollingInterval, cycles>>
      /\ \A i \in 1..MaxInits :
           ResumesWithKeepAlive(i) /\ state = Polling
             => /\ ev'.err = "StateError"
                /\ UNCHANGED <<state, quitPollingFlag, cycles>>
    ]_vars

StartPollingWhilePollingReached ==
  /\ ev = Event("startPolling", "StateError")
  /\ state = Polling
  /\ Loops # {}

\* C5: close called while state is Polling or Closed throws a state error,
\* leaves state as it is and sends no deregister request (and so does stop
\* called while state is Closed).
CloseWhilePollingOrClosed ==
  [][ /\ ev'.op = "close" /\ ev'.status = -1 /\ state \in {Polling, Closed}
         => /\ ev'.err = "StateError"
            /\ UNCHANGED <<state, closes>>
      /\ ev'.op = "stop" /\ state = Closed
         => /\ ev'.err = "StateError"
            /\ UNCHANGED <<state, closes>>
    ]_vars

CloseWhileClosedReached ==
  /\ ev = Event("close", "StateError")
  /\ state = Closed

\* the step is a call of close, by the user or by stop
CloseCalled == (ev'.op = "close" /\ ev'.status = -1) \/ ev'.op = "stop"
\* the step is the end of the deregister exchange of a close
CloseSettled == ev'.op = "close" /\ ev'.status # -1

\* C6 as stated: close called in state Idle sends exactly one deregister
\* request; when the answer is not 200, or the request fails, close fails and
\* state is still Idle; state becomes Closed exactly when the answer is 200.
CloseInIdleSendsOneRequest ==
  [][ /\ ev'.op = "close" /\ ev'.status = -1 /\ state = Idle
         => /\ ev'.err = "none"
            /\ Cardinality(Deregistering') = Cardinality(Deregistering) + 1
            /\ state' = Idle
      /\ CloseSettled
         => /\ ev'.status = 200 => state' = Closed /\ ev'.err = "none"
            /\ ev'.status # 200 => state' = Idle /\ ev'.err # "none"
    ]_vars

\* C6, amended: close that passes its guards (called in state Idle, or by stop
\* after its stopPolling) sends exactly one deregister request when the server
\* URL is set, and throws without sending anything when it is not (a service
\* that was never initialized); the end of the exchange sends nothing more;
\* when the answer is 200 state becomes Closed, and when it is anything else,
\* or the request fails, close fails and leaves state as it is then.
CloseInIdle ==
  [][ /\ CloseCalled /\ state' = Idle /\ serverURL # NoURL
         => /\ ev'.err = "none"
            /\ Cardinality(Deregistering') = Cardinality(Deregistering) + 1
      /\ CloseCalled /\ state' = Idle /\ serverURL = NoURL
         => /\ ev'.err = "InvalidURL"
            /\ closes' = closes
      /\ CloseSettled
         => /\ Cardinality(Deregistering') = Cardinality(Deregistering) - 1
            /\ ev'.status = 200 => state' = Closed /\ ev'.err = "none"
            /\ ev'.status # 200 => state' = state /\ ev'.err # "none"
    ]_vars

CloseFailedReached ==
  /\ ev = Settled("close", "DeregistrationError", 500)
  /\ state = Idle
  /\ Deregistering = {}

\* C7: stopPolling called while state is not Polling throws a state error and
\* leaves state and the cancellation flag unchanged.
StopPollingWhileNotPolling ==
  [][ ev'.op = "stopPolling" /\ state # Polling
        => /\ ev'.err = "StateError"
           /\ UNCHANGED <<state, quitPollingFlag>>
    ]_vars

StopPollingWhileClosedReached ==
  /\ ev = Event("stopPolling", "StateError")
  /\ state = Closed

\* C9: when the registration of initialize has failed, initialize goes on
\* without entering Polling and without sending a poll request, also when
\* keepAliveInterval was given.
FailedRegistrationStartsNothing ==
  [][ \A i \in 1..MaxInits :
        inits[i].pc = "registered" /\ ~inits[i].registered /\ inits'[i].pc = "none"
          => /\ state' = Polling => state = Polling
             /\ cycles' = cycles
    ]_vars

\* C8: a Poll Cycle of a polling loop never ends the loop, whatever it ends
\* with: a loop ends only when it wakes from its sleep and finds the
\* cancellation flag set, and a sleeping loop starts another cycle unless
\* stopPolling has set that flag.
FailedCycleKeepsLoop ==
  /\ [][ \A i \in Slots :
           cycles[i].kind = "loop" /\ cycles'[i].kind # "loop"
             => cycles[i].pc = "sleep" /\ quitPollingFlag
       ]_vars
  /\ \A i \in Slots :
       (cycles[i].kind = "loop" /\ cycles[i].pc = "sleep" /\ serverURL # NoURL)
         ~> (cycles[i].pc = "request" \/ quitPollingFlag)

FailedCycleReached ==
  /\ ev = Settled("getInteractions", "AuthenticationError", 401)
  /\ state = Polling
  /\ ~quitPollingFlag
  /\ \E i \in Loops : cycles[i].pc = "sleep"

\* the serial numbers of a batch
Ids(items) == [j \in 1..Len(items) |-> items[j].id]

RECURSIVE Flatten(_)
Flatten(batches) ==
  IF batches = <<>> THEN <<>>
  ELSE Ids(Head(batches).items) \o Flatten(Tail(batches))

\* the batches answered to the cycles of slot i that deliver to the handler
ServedTo(i) == SelectSeq(served, LAMBDA b : b.by = i /\ b.cb = Handler)
AllDecode(batches) ==
  \A k \in 1..Len(batches) :
    \A j \in 1..Len(batches[k].items) : batches[k].items[j].ok
\* what the handler has got of them, and what cycle i has still to deliver
ReceivedOf(batches) ==
  SelectSeq(received,
            LAMBDA id : \E k \in 1..Len(batches) :
                          \E j \in 1..Len(batches[k].items) :
                            batches[k].items[j].id = id)
Undelivered(i) ==
  IF cycles[i].pc = "decrypt" /\ cycles[i].cb = Handler
  THEN Ids(cycles[i].items) ELSE <<>>

\* C10: when all the items answered to the successive cycles of a loop decrypt
\* and decode, the handler gets each of them once, in the order of the server
\* within a batch and batch after batch in the order of the cycles.
DeliveredInServerOrder ==
  \A i \in Slots :
    AllDecode(ServedTo(i))
      => ReceivedOf(ServedTo(i)) \o Undelivered(i) = Flatten(ServedTo(i))

\* three cycles of one loop, one interaction each
ThreeCyclesReached ==
  /\ Len(served) = 3
  /\ \A k \in 1..3 : served[k].by = served[1].by /\ Len(served[k].items) = 1
  /\ received = <<1, 2, 3>>
  /\ state = Idle

\* the items of a batch before the first one that does not decrypt or decode
RECURSIVE Decodable(_)
Decodable(items) ==
  IF items = <<>> \/ ~Head(items).ok THEN <<>>
  ELSE <<Head(items)>> \o Decodable(Tail(items))

RECURSIVE FlattenDecodable(_)
FlattenDecodable(batches) ==
  IF batches = <<>> THEN <<>>
  ELSE Ids(Decodable(Head(batches).items)) \o FlattenDecodable(Tail(batches))

\* what cycle i will still deliver of its batch
Deliverable(i) ==
  IF cycles[i].pc = "decrypt" /\ cycles[i].cb = Handler
  THEN Ids(Decodable(cycles[i].items)) ELSE <<>>

\* C11: of every batch the handler gets the items before the first one that
\* fails to decrypt or decode, in order, and none after it; the step that
\* fails records a decode error, invokes nothing and ends the cycle without
\* ending its loop, whose next timer starts another cycle.
UndecodableItemEndsCycle ==
  /\ [](\A i \in Slots :
          ReceivedOf(ServedTo(i)) \o Deliverable(i) = FlattenDecodable(ServedTo(i)))
  /\ [][ \A i \in Slots :
           /\ cycles[i].pc = "decrypt" /\ ~Head(cycles[i].items).ok
                /\ cycles'[i].items # cycles[i].items
                => /\ ev' = Event("getInteractions", "DecodeError")
                   /\ received' = received
                   /\ cycles'[i].items = <<>>
                   /\ cycles[i].kind = "loop"
                        => cycles'[i].kind = "loop" /\ cycles'[i].pc = "sleep"
           /\ cycles[i].kind = "loop" /\ cycles[i].pc = "sleep"
                /\ cycles'[i].pc # "sleep" /\ ~quitPollingFlag /\ serverURL # NoURL
                => cycles'[i].pc = "request"
       ]_vars

\* data = [A, B] with B undecodable: one invocation, with A, and the loop
\* has started its next cycle
UndecodableSecondItemReached ==
  /\ Len(served) = 1
  /\ served[1].cb = Handler
  /\ served[1].items = <<[id |-> 1, ok |-> TRUE], [id |-> 2, ok |-> FALSE]>>
  /\ received = <<1>>
  /\ cycles[served[1].by].kind = "loop"
  /\ cycles[served[1].by].pc = "request"

\* C12: a poll answered with status 401 ends its cycle with an authentication
\* error, a poll answered with any other status that is not 200 ends it with
\* a polling error, which is another error; in both cases the handler is not
\* invoked and the cycle has nothing to deliver.
PollStatusErrors ==
  [][ \A i \in Slots :
        cycles[i].pc = "request" /\ cycles'[i].pc # "request"
          /\ ev'.status \notin {200, TransportFailure}
          => /\ ev'.op = "getInteractions"
             /\ ev'.err = IF ev'.status = 401 THEN "AuthenticationError"
                          ELSE "PollingError"
             /\ ev'.status # 401 => ev'.err # "AuthenticationError"
             /\ received' = received
             /\ served' = served
             /\ cycles'[i].pc \in {"sleep", "none"}
             /\ cycles'[i].items = <<>>
    ]_vars

\* a poll is answered 401 after the handler got an interaction
UnauthorizedPollReached ==
  /\ ev = Settled("getInteractions", "AuthenticationError", 401)
  /\ received = <<1>>

\* C13: poll called while state is Polling starts exactly one Poll Cycle,
\* which delivers to the handler every running loop delivers to, and leaves
\* state, the cancellation flag and the interval as they are; called in any
\* other state it throws a not-polling error and sends no request.
PollDeliversLikeLoop ==
  [][ ev'.op = "poll"
        => /\ UNCHANGED <<state, quitPollingFlag, pollingInterval>>
           /\ state # Polling => ev'.err = "NotPolling" /\ cycles' = cycles
           /\ state = Polling => ev'.err = "none"
           /\ state = Polling /\ serverURL # NoURL
                => \E i \in Slots :
                     /\ cycles[i].kind = "none"
                     /\ cycles'[i].kind = "poll" /\ cycles'[i].pc = "request"
                     /\ \A j \in Slots \ {i} : cycles'[j] = cycles[j]
                     /\ \A j \in Loops : cycles'[i].cb = cycles[j].cb
    ]_vars

\* C14: the polling interval is greater than 0 milliseconds in every
\* reachable state, whatever keepAliveInterval and seconds are passed.
PollingIntervalPositive == pollingInterval > 0

\* C15: setRefreshTimeSecond(seconds) throws and leaves the interval as it is
\* unless 5 <= seconds <= 3600, and then it sets the interval to
\* seconds * 1000 ms; it does not touch a sleep in progress, and a loop that
\* goes to sleep sleeps for the interval of that moment.
RefreshTimeWithinBounds ==
  [][ /\ ev'.op = "setRefreshTimeSecond"
         => /\ cycles' = cycles
            /\ IF 5 <= ev'.arg /\ ev'.arg <= 3600
               THEN ev'.err = "none" /\ pollingInterval' = ev'.arg * 1000
               ELSE ev'.err = "ConfigurationError"
                    /\ pollingInterval' = pollingInterval
      /\ \A i \in Slots :
           cycles[i].pc # "sleep" /\ cycles'[i].pc = "sleep"
             => cycles'[i].ms = pollingInterval'
    ]_vars

\* 3600 seconds were set while a loop sleeps for the 30000 ms of before
RefreshDuringSleepReached ==
  /\ ev = Called("setRefreshTimeSecond", 3600, "none")
  /\ pollingInterval = 3600000
  /\ \E i \in Loops : cycles[i].pc = "sleep" /\ cycles[i].ms = 30000

\* C16: once initialize has set correlationID and secretKey, no later
\* operation on the same client (another initialize included) changes either.
SessionIdentityImmutable ==
  [][ ev'.op # "useClientService"
        => /\ correlationID # NoID => correlationID' = correlationID
           /\ secretKey # NoID => secretKey' = secretKey
    ]_vars

\* what initialize makes of an export: the URL is parsed again
Resumed(s) == <<s.correlationID, s.secretKey, NewURL(s.serverURL), s.token>>

\* C17: the export of saveSession denotes the session it was taken from, and
\* an initialize that is given that export as sessionInfo, whatever token and
\* serverURL options come with it, sets correlationID, secretKey, serverURL
\* and token to what the export denotes; a registration answered 200 leaves
\* state Idle.
SessionRoundTrip ==
  [][ /\ ev'.op = "saveSession" /\ ev'.err = "none"
         => Resumed(saved') = <<correlationID, secretKey, serverURL, token>>
      /\ \A i \in 1..MaxInits :
           inits[i].pc = "none" /\ inits'[i].pc = "encodePublicKey"
             /\ inits'[i].sessionInfo # NoSession
             => /\ inits'[i].sessionInfo = saved
                /\ <<correlationID', secretKey', serverURL', token'>> = Resumed(saved)
      /\ ev' = Settled("performRegistration", "none", 200) => state' = Idle
    ]_vars

\* a session made with nonce length 4 was exported and resumed by an
\* initialize without that option, and registered again
SessionResumedReached ==
  /\ saved # NoSession
  /\ <<correlationID, secretKey, serverURL, token>> = Resumed(saved)
  /\ secretKey.len = 4
  /\ correlationIdNonceLength = 13
  /\ state = Idle
  /\ ev = Settled("performRegistration", "none", 200)

\* C18: generateUrl returns the empty string when state is Closed or there is
\* no correlationID or no serverURL, and otherwise "https://", the
\* correlationID, a nonce of the configured nonce length that is generated by
\* the call, "." and the host of the server; it changes nothing of the client.
GenerateUrlResult ==
  [][ ev'.op = "generateUrl"
        => /\ UNCHANGED <<state, quitPollingFlag, pollingInterval, session, inits,
                          cycles, closes>>
           /\ ev'.err = "none"
           /\ IF state = Closed \/ correlationID = NoID \/ serverURL = NoURL
              THEN ev'.url = NoHostname
              ELSE /\ ev'.url.scheme = "https://"
                   /\ ev'.url.correlationID = correlationID
                   /\ \E r \in SessionDraws :
                        ev'.url.nonce = generateRandomID(correlationIdNonceLength, r)
                   /\ ev'.url.host = serverURL.host
    ]_vars

\* a URL with a nonce of the configured length 4 under the host of the session
GeneratedUrlReached ==
  /\ ev.op = "generateUrl"
  /\ ev.url.correlationID = correlationID
  /\ ev.url.nonce = generateRandomID(4, 2)
  /\ ev.url.host = "oast.fun"
  /\ state = Idle

\* nothing is generated once the client is closed
GeneratedNothingWhenClosedReached ==
  /\ ev.op = "generateUrl"
  /\ ev.url = NoHostname
  /\ state = Closed
  /\ correlationID # NoID

\* C19: the state field agrees with the scheduler: while a polling loop is
\* alive and the cancellation flag is clear, state is Polling.
StateAgreesWithScheduler ==
  Loops # {} /\ ~quitPollingFlag => state = Polling

\* C20: while state is Closed the handler is not invoked and no poll request
\* is sent, whatever cycle was in flight when the client was closed (the steps
\* that leave Closed are those of C1 and are not looked at here).
ClosedClientIsQuiet ==
  [][ state = Closed /\ state' = Closed
        => /\ received' = received
           /\ \A i \in Slots : cycles'[i].pc = "request" => cycles[i].pc = "request"
    ]_vars

====
